---- MODULE Spec2Model ----
(***************************************************************************)
(* Round lifecycle of the prediction bot (src/src/bot/base-bot.ts) and the *)
(* pure helpers it uses (src/src/lib.ts).                                  *)
(*                                                                         *)
(* One lifecycle (a call of BaseBot.handleRound) is started per StartRound *)
(* event.  JavaScript runs each lifecycle to its next await without        *)
(* preemption, so every action below is one such run: the code from the    *)
(* resolution (or rejection) of one awaited call up to the next await.     *)
(* The awaited calls themselves (timer, contract reads, transactions,      *)
(* confirmations) belong to the environment and may succeed or fail.       *)
(***************************************************************************)
EXTENDS Integers, Sequences, FiniteSets, TLC

VARIABLES
    strategy,     \* STRATEGIES value handed to BaseBot.start
    waitingTime,  \* BaseBot.waitingTime (ms), shared by all lifecycles
    alive,        \* the node process is running (no unhandled rejection)
    lc,           \* epoch -> the handleRound call started for that epoch
    ledger,       \* epoch -> what the contract reports for the signer
    probe         \* direct call of a lib.ts function: arguments and result

vars == <<strategy, waitingTime, alive, lc, ledger, probe>>

----------------------------------------------------------------------------
(* Program constants *)

DEFAULT_WAITING_TIME_MS == 281500
MIN_WAITING_TIME_MS == 6000
TWO_BLOCKS_MS == 6000
DUES_PERCENTAGE == 50
CLAIMABLE_EPOCHS_CHECK_COUNT == 5
STRATEGY_RATIO_THRESHOLD == 5

Against == "Against"
With == "With"
STRATEGIES == {Against, With}

----------------------------------------------------------------------------
(* Bounds of the model *)

\* Number of StartRound events delivered in the lifecycle specification.
NumRounds == 2
\* Largest number of lifecycles that are in flight at the same time.
MaxInFlight == 2
\* Largest number of events in a claim receipt.
MaxEvents == 2
\* Largest number of past rounds in which the signer holds a stake.
MaxStaked == 1

\* The first epoch signalled: every round of its claim window exists.
FirstEpoch == CLAIMABLE_EPOCHS_CHECK_COUNT + 1
LastEpoch == FirstEpoch + NumRounds - 1
Rounds == FirstEpoch .. LastEpoch

\* Pool totals read from the contract (wei): ratios 2, 5 and 10, equal
\* pools, and an empty side.
Pools == {0, 10, 50, 100}

----------------------------------------------------------------------------
(* BigNumber amounts of wei.  TLC integers are 32 bit, 0.01 BNB is 10^16   *)
(* wei, so an amount is kept exactly as gwei * 10^9 + wei, wei < 10^9.     *)
(* present = FALSE stands for the JavaScript value undefined.              *)

GWEI == 1000000000

BN(g, w) == [present |-> TRUE, gwei |-> g, wei |-> w]
Undefined == [present |-> FALSE, gwei |-> 0, wei |-> 0]

\* BigNumber.lt
BNLt(a, b) == a.gwei < b.gwei \/ (a.gwei = b.gwei /\ a.wei < b.wei)

\* BigNumber.div by a small divisor d that divides 10^9 (truncating).
\* (g*10^9 + w) div d  with  g = d*q + r:
\*    q*10^9 + r*(10^9 div d) + w div d,  and the low part stays < 10^9.
BNDivSmall(a, d) ==
    BN(a.gwei \div d, (a.gwei % d) * (GWEI \div d) + (a.wei \div d))

\* parseEther("0.01") = 10^16 wei
ParseEtherCenti == BN(10000000, 0)

----------------------------------------------------------------------------
(* lib.ts: pure helpers *)

\* A boolean expression of the code either yields a value or throws.
Bool(b) == IF b THEN "true" ELSE "false"

\* BigNumber.div(x, y) throws a division-by-zero fault when y is zero.
DivThrows(x, y) == y = 0

\* (x.gt(y) && x.div(y).lt(5)): the division is evaluated only when the
\* comparison in front of it is true.
GtAndRatioLt(x, y) ==
    IF x > y
    THEN IF DivThrows(x, y) THEN "throw"
         ELSE Bool(x \div y < STRATEGY_RATIO_THRESHOLD)
    ELSE "false"

\* (x.lt(y) && y.div(x).gt(5))
LtAndRatioGt(x, y) ==
    IF x < y
    THEN IF DivThrows(y, x) THEN "throw"
         ELSE Bool(y \div x > STRATEGY_RATIO_THRESHOLD)
    ELSE "false"

\* a || b, b evaluated only when a is false
OrElse(a, b) == IF a = "false" THEN b ELSE a

\* isAgainstBet without the ratio tests: against the heavier pool always.
isAgainstBet_AnyRatio(bullAmount, bearAmount) == Bool(bullAmount > bearAmount)

\* isAgainstBet with lte(5) in place of lt(5) in its first test.
isAgainstBet_RatioLte(bullAmount, bearAmount) ==
    OrElse(IF bullAmount > bearAmount
           THEN IF DivThrows(bullAmount, bearAmount) THEN "throw"
                ELSE Bool(bullAmount \div bearAmount <= STRATEGY_RATIO_THRESHOLD)
           ELSE "false",
           LtAndRatioGt(bullAmount, bearAmount))

isAgainstBet(bullAmount, bearAmount) ==
    OrElse(GtAndRatioLt(bullAmount, bearAmount),
           LtAndRatioGt(bullAmount, bearAmount))

\* isWithBet with gte(5) in place of gt(5) in its second test.
isWithBet_RatioGte(bullAmount, bearAmount) ==
    OrElse(GtAndRatioLt(bearAmount, bullAmount),
           IF bearAmount < bullAmount
           THEN IF DivThrows(bullAmount, bearAmount) THEN "throw"
                ELSE Bool(bullAmount \div bearAmount >= STRATEGY_RATIO_THRESHOLD)
           ELSE "false")

isWithBet(bullAmount, bearAmount) ==
    OrElse(GtAndRatioLt(bearAmount, bullAmount),
           LtAndRatioGt(bearAmount, bullAmount))

reduceWaitingTimeByTwoBlocks(w) ==
    IF w <= MIN_WAITING_TIME_MS THEN w ELSE w - TWO_BLOCKS_MS

\* calculateDuesAmount without the minimum for small payouts.
calculateDuesAmount_NoMinimum(amount) ==
    IF ~amount.present THEN ParseEtherCenti
    ELSE BNDivSmall(amount, DUES_PERCENTAGE)

calculateDuesAmount(amount) ==
    IF ~amount.present
          \/ BNLt(BNDivSmall(amount, DUES_PERCENTAGE), ParseEtherCenti)
    THEN ParseEtherCenti
    ELSE BNDivSmall(amount, DUES_PERCENTAGE)

\* The test without its check of the claimed flag.
IsClaimableEntry_IgnoresClaimed(entry) ==
    entry.amount > 0 /\ (entry.claimable \/ entry.refundable)

\* The test of getClaimableEpochs / getClaimableEpochsCG on one round.
IsClaimableEntry(entry) ==
    entry.amount > 0 /\ (entry.claimable \/ entry.refundable) /\ ~entry.claimed

\* placeBet: the strategy chosen at start selects the evaluator; the result
\* is shouldBetBear, or the fault thrown by the evaluator.
ShouldBetBear(strat, bullAmount, bearAmount) ==
    IF strat = Against
    THEN isAgainstBet(bullAmount, bearAmount)
    ELSE isWithBet(bullAmount, bearAmount)

\* placeBet: const betType = shouldBetBear ? "Bear" : "Bull"
BetType(shouldBetBear) == IF shouldBetBear = "true" THEN "Bear" ELSE "Bull"

----------------------------------------------------------------------------
(* State of one handleRound call.  The fields pc .. duesSettled are the    *)
(* position and the locals of the call; bet, reductions, scanned and error *)
(* record what the call has logged so far and are kept when it returns,    *)
(* and so are claim (the outcome of its claim transaction) and betTxs and  *)
(* claimTxs (the numbers of executeBet and executeClaim calls it made) and *)
(* claimTx (the rounds it passed to executeClaim).                         *)

DUES_RECIPIENT == "0x74b8B9b7aa13D26056F4eceBDF06C917d15974C7"

\* parseEther(config.betAmount) for the default BET_AMOUNT of "0.1".
BetAmount == BN(100000000, 0)

NoTx == [method |-> "none", epoch |-> 0, value |-> Undefined]

\* executeBet: contract.betBear(epoch, {value}) or contract.betBull(epoch,
\* {value}) with value = parseEther(config.betAmount).
BetTx(epoch, isBear) ==
    [method |-> IF isBear = "true" THEN "betBear" ELSE "betBull",
     epoch |-> epoch, value |-> BetAmount]

Fresh ==
    [pc |-> "idle", sleepMs |-> 0,
     bullAmount |-> 0, bearAmount |-> 0, betType |-> "none", betTx |-> NoTx,
     i |-> 0, claimableEpochs |-> <<>>,
     events |-> <<>>, k |-> 0, duesSent |-> <<>>, duesSettled |-> 0,
     bet |-> "none", reductions |-> 0, scanned |-> FALSE, error |-> "none",
     claim |-> "none", betTxs |-> 0, claimTxs |-> 0, claimTx |-> <<>>]

\* handleRound has returned: its locals are gone, its log remains.
Returned(r, err) ==
    [Fresh EXCEPT !.pc = "done", !.bet = r.bet, !.reductions = r.reductions,
                  !.scanned = r.scanned, !.error = err, !.claim = r.claim,
                  !.betTxs = r.betTxs, !.claimTxs = r.claimTxs,
                  !.claimTx = r.claimTx]

InFlight == {e \in DOMAIN lc : lc[e].pc \notin {"idle", "done"}}

BlankEntry ==
    [amount |-> 0, claimable |-> FALSE, refundable |-> FALSE, claimed |-> FALSE]

\* Every record the contract can return for (round, signer).
LedgerEntries ==
    [amount : {0, 1}, claimable : BOOLEAN, refundable : BOOLEAN,
     claimed : BOOLEAN]

\* The records of a round the signer has staked in, as the contract reports
\* them: lost, won (claimable), refundable, or claimed already.
StakedEntries ==
    {en \in LedgerEntries :
        /\ en.amount > 0
        /\ ~(en.claimable /\ en.refundable)
        /\ en.claimed => ~(en.claimable \/ en.refundable)}

\* Ledgers over the rounds 1 .. last in which at most n rounds of `past`
\* carry an entry of `kinds` and every other round is blank.
LedgersOver(last, past, kinds, n) ==
    { [e \in 1 .. last |-> IF e \in DOMAIN f THEN f[e] ELSE BlankEntry] :
        f \in UNION { [S -> kinds] :
                        S \in {T \in SUBSET past : Cardinality(T) <= n} } }

\* Payout amounts carried by the events of a claim receipt: none (the event
\* has no args.amount), 1000 wei, and 1 BNB.
PayoutArgs == {Undefined, BN(0, 1000), BN(GWEI, 0)}

SeqsUpTo(S, n) == UNION { [1 .. m -> S] : m \in 0 .. n }

\* receipt.events is undefined, or an array of events.
Receipts ==
    {[hasEvents |-> FALSE, events |-> <<>>]}
    \cup {[hasEvents |-> TRUE, events |-> ev] : ev \in SeqsUpTo(PayoutArgs, MaxEvents)}

----------------------------------------------------------------------------
(* base-bot.ts: the lifecycle *)

\* handleRound without its try/catch: the rejection is unhandled and ends
\* the process.
HandleRoundCatch_Unhandled(e, err) ==
    /\ lc' = [lc EXCEPT ![e] = Returned(@, err)]
    /\ alive' = FALSE

\* The catch block of handleRound: logs and returns.
HandleRoundCatch(e, err) ==
    /\ lc' = [lc EXCEPT ![e] = Returned(@, err)]
    /\ alive' = alive

\* handleRound returns normally.
HandleRoundReturn(e) ==
    /\ lc' = [lc EXCEPT ![e] = Returned(@, "none")]
    /\ alive' = alive

\* placeBet returns and claimRewards calls getClaimableEpochs, which issues
\* the reads of round epoch - 1.
EnterClaimRewards(r) ==
    [r EXCEPT !.pc = "scan", !.bullAmount = 0, !.bearAmount = 0,
              !.betType = "none", !.betTx = NoTx, !.i = 1, !.claimableEpochs = <<>>, !.scanned = TRUE]

\* StartRoundWhen for a handleRound that sleeps for config.waitingTime, the
\* configured value, whatever this.waitingTime has become.
StartRoundWhen_SleepsConfigured(e, limit) ==
    /\ alive
    /\ e \in DOMAIN lc
    /\ lc[e].pc = "idle"
    /\ \A d \in DOMAIN lc : d < e => lc[d].pc # "idle"
    /\ Cardinality(InFlight) < limit
    /\ lc' = [lc EXCEPT ![e] = [@ EXCEPT !.pc = "sleeping",
                                         !.sleepMs = DEFAULT_WAITING_TIME_MS]]
    /\ UNCHANGED <<strategy, waitingTime, alive, ledger, probe>>

\* contract.on("StartRound", ...): the listener calls handleRound, which
\* logs and suspends in sleep(this.waitingTime).  The contract emits the
\* events in the order of the rounds, one per round, and fewer than `limit`
\* earlier lifecycles are still in flight when the event arrives.
StartRoundWhen(e, limit) ==
    /\ alive
    /\ e \in DOMAIN lc
    /\ lc[e].pc = "idle"
    /\ \A d \in DOMAIN lc : d < e => lc[d].pc # "idle"
    /\ Cardinality(InFlight) < limit
    /\ lc' = [lc EXCEPT ![e] = [@ EXCEPT !.pc = "sleeping",
                                         !.sleepMs = waitingTime]]
    /\ UNCHANGED <<strategy, waitingTime, alive, ledger, probe>>

StartRound(e) == StartRoundWhen(e, MaxInFlight)

\* SleepElapsed for a bot that handles one round after the other.
SleepElapsed_AfterEarlierRounds(e) ==
    /\ alive
    /\ lc[e].pc = "sleeping"
    /\ \A d \in DOMAIN lc : d < e => lc[d].pc = "done"
    /\ lc' = [lc EXCEPT ![e] = [@ EXCEPT !.pc = "amounts", !.sleepMs = 0]]
    /\ UNCHANGED <<strategy, waitingTime, alive, ledger, probe>>

\* The timer fires: getRoundAmounts is called.
SleepElapsed(e) ==
    /\ alive
    /\ lc[e].pc = "sleeping"
    /\ lc' = [lc EXCEPT ![e] = [@ EXCEPT !.pc = "amounts", !.sleepMs = 0]]
    /\ UNCHANGED <<strategy, waitingTime, alive, ledger, probe>>

\* AmountsFail for a bot that logs the failure and calls getRoundAmounts
\* again.
AmountsFail_Retries(e) ==
    /\ alive
    /\ lc[e].pc = "amounts"
    /\ lc' = [lc EXCEPT ![e] = [@ EXCEPT !.error = "amounts"]]
    /\ UNCHANGED <<strategy, waitingTime, alive, ledger, probe>>

\* AmountsFail for a bot that catches the read failure around the betting
\* step only and goes on to claimRewards.
AmountsFail_ContinuesToScan(e) ==
    /\ alive
    /\ lc[e].pc = "amounts"
    /\ lc' = [lc EXCEPT ![e] = EnterClaimRewards([@ EXCEPT !.error = "amounts"])]
    /\ UNCHANGED <<strategy, waitingTime, alive, ledger, probe>>

\* getRoundAmounts rejects.
AmountsFail(e) ==
    /\ alive
    /\ lc[e].pc = "amounts"
    /\ HandleRoundCatch(e, "amounts")
    /\ UNCHANGED <<strategy, waitingTime, ledger, probe>>

\* getRoundAmounts resolves: placeBet evaluates the strategy and calls
\* executeBet, or the evaluation throws and handleRound catches.
AmountsOk(e, bull, bear) ==
    /\ alive
    /\ lc[e].pc = "amounts"
    /\ LET shouldBetBear == ShouldBetBear(strategy, bull, bear) IN
         IF shouldBetBear = "throw"
         THEN HandleRoundCatch(e, "division-by-zero")
         ELSE /\ lc' = [lc EXCEPT ![e] =
                          [@ EXCEPT !.pc = "bet_submit",
                                    !.bullAmount = bull, !.bearAmount = bear,
                                    !.betType = BetType(shouldBetBear),
                                    !.betTx = BetTx(e, shouldBetBear),
                                    !.betTxs = @ + 1]]
              /\ alive' = alive
    /\ UNCHANGED <<strategy, waitingTime, ledger, probe>>

\* A catch block of placeBet that reduces the configured waiting time, a
\* value read before the other lifecycles changed this.waitingTime.
PlaceBetCatch_ReducesStaleValue(e) ==
    /\ waitingTime' = reduceWaitingTimeByTwoBlocks(DEFAULT_WAITING_TIME_MS)
    /\ lc' = [lc EXCEPT ![e] =
                EnterClaimRewards([@ EXCEPT !.bet = "failed",
                                            !.reductions = @ + 1])]

\* A catch block of placeBet that calls executeBet again after the
\* reduction.
PlaceBetCatch_Resubmits(e) ==
    /\ waitingTime' = reduceWaitingTimeByTwoBlocks(waitingTime)
    /\ lc' = [lc EXCEPT ![e] = [@ EXCEPT !.pc = "bet_submit",
                                         !.reductions = @ + 1,
                                         !.betTxs = @ + 1]]

\* A catch block of placeBet that rethrows after the reduction.
PlaceBetCatch_Rethrows(e) ==
    /\ waitingTime' = reduceWaitingTimeByTwoBlocks(waitingTime)
    /\ lc' = [lc EXCEPT ![e] =
                Returned([@ EXCEPT !.bet = "failed", !.reductions = @ + 1],
                         "bet")]

\* The catch block of placeBet.
PlaceBetCatch(e) ==
    /\ waitingTime' = reduceWaitingTimeByTwoBlocks(waitingTime)
    /\ lc' = [lc EXCEPT ![e] =
                EnterClaimRewards([@ EXCEPT !.bet = "failed",
                                            !.reductions = @ + 1])]

\* executeBet resolves with the pending transaction: tx.wait() is awaited.
\* The pool totals are not read again and are dropped from the state.
BetSubmitOk(e) ==
    /\ alive
    /\ lc[e].pc = "bet_submit"
    /\ lc' = [lc EXCEPT ![e] = [@ EXCEPT !.pc = "bet_wait",
                                         !.bullAmount = 0, !.bearAmount = 0]]
    /\ UNCHANGED <<strategy, waitingTime, alive, ledger, probe>>

\* executeBet rejects.
BetSubmitFail(e) ==
    /\ alive
    /\ lc[e].pc = "bet_submit"
    /\ PlaceBetCatch(e)
    /\ UNCHANGED <<strategy, alive, ledger, probe>>

\* BetWaitOk for a placeBet that restores the configured waiting time after
\* a confirmed bet.
BetWaitOk_RestoresWaitingTime(e) ==
    /\ alive
    /\ lc[e].pc = "bet_wait"
    /\ lc' = [lc EXCEPT ![e] = EnterClaimRewards([@ EXCEPT !.bet = "ok"])]
    /\ waitingTime' = DEFAULT_WAITING_TIME_MS
    /\ UNCHANGED <<strategy, alive, ledger, probe>>

\* tx.wait() resolves.
BetWaitOk(e) ==
    /\ alive
    /\ lc[e].pc = "bet_wait"
    /\ lc' = [lc EXCEPT ![e] = EnterClaimRewards([@ EXCEPT !.bet = "ok"])]
    /\ UNCHANGED <<strategy, waitingTime, alive, ledger, probe>>

\* tx.wait() rejects.
BetWaitFail(e) ==
    /\ alive
    /\ lc[e].pc = "bet_wait"
    /\ PlaceBetCatch(e)
    /\ UNCHANGED <<strategy, alive, ledger, probe>>

\* ScanRead for a claimRewards without its test of an empty list:
\* executeClaim is called on whatever the scan returns.
ScanRead_ClaimsEmptyBatch(e) ==
    /\ alive
    /\ lc[e].pc = "scan"
    /\ LET r == lc[e]
           epochToCheck == e - r.i
           found == IF IsClaimableEntry(ledger[epochToCheck])
                    THEN Append(r.claimableEpochs, epochToCheck)
                    ELSE r.claimableEpochs
       IN  IF r.i < CLAIMABLE_EPOCHS_CHECK_COUNT
           THEN lc' = [lc EXCEPT ![e] = [@ EXCEPT !.i = @ + 1,
                                                  !.claimableEpochs = found]]
           ELSE lc' = [lc EXCEPT ![e] = [@ EXCEPT !.pc = "claim_submit",
                                                  !.i = 0,
                                                  !.claimableEpochs = found,
                                                  !.claimTxs = @ + 1]]
    /\ UNCHANGED <<strategy, waitingTime, alive, ledger, probe>>

\* One pass of the loop of getClaimableEpochs: the three reads of round
\* epoch - i resolve (only `claimed` ever changes in the ledger, and one
\* read returns it, so the three reads see one ledger).  After the last
\* pass claimRewards returns on an empty list and calls executeClaim
\* otherwise.
ScanRead(e) ==
    /\ alive
    /\ lc[e].pc = "scan"
    /\ LET r == lc[e]
           epochToCheck == e - r.i
           found == IF IsClaimableEntry(ledger[epochToCheck])
                    THEN Append(r.claimableEpochs, epochToCheck)
                    ELSE r.claimableEpochs
       IN  IF r.i < CLAIMABLE_EPOCHS_CHECK_COUNT
           THEN /\ lc' = [lc EXCEPT ![e] = [@ EXCEPT !.i = @ + 1,
                                                     !.claimableEpochs = found]]
                /\ alive' = alive
           ELSE IF Len(found) = 0
           THEN HandleRoundReturn(e)
           ELSE /\ lc' = [lc EXCEPT ![e] = [@ EXCEPT !.pc = "claim_submit",
                                                     !.i = 0,
                                                     !.claimableEpochs = found,
                                                     !.claimTxs = @ + 1,
                                                     !.claimTx = found]]
                /\ alive' = alive
    /\ UNCHANGED <<strategy, waitingTime, ledger, probe>>

\* One of the reads rejects: getClaimableEpochs is awaited outside the try
\* of claimRewards, so handleRound catches.
ScanFail(e) ==
    /\ alive
    /\ lc[e].pc = "scan"
    /\ HandleRoundCatch(e, "scan")
    /\ UNCHANGED <<strategy, waitingTime, ledger, probe>>

\* A catch block of claimRewards that calls executeClaim again.
ClaimCatch_Resubmits(e) ==
    /\ lc' = [lc EXCEPT ![e] = [@ EXCEPT !.pc = "claim_submit",
                                         !.claim = "failed",
                                         !.claimTxs = @ + 1]]
    /\ alive' = alive

\* The catch block of claimRewards: logs; claimRewards and handleRound
\* return.
ClaimCatch(e) ==
    /\ lc' = [lc EXCEPT ![e] = Returned([@ EXCEPT !.claim = "failed"], "none")]
    /\ alive' = alive

\* executeClaim resolves: tx.wait() is awaited.
ClaimSubmitOk(e) ==
    /\ alive
    /\ lc[e].pc = "claim_submit"
    /\ lc' = [lc EXCEPT ![e] = [@ EXCEPT !.pc = "claim_wait"]]
    /\ UNCHANGED <<strategy, waitingTime, alive, ledger, probe>>

\* executeClaim rejects.
ClaimSubmitFail(e) ==
    /\ alive
    /\ lc[e].pc = "claim_submit"
    /\ ClaimCatch(e)
    /\ UNCHANGED <<strategy, waitingTime, ledger, probe>>

\* Index of the first event at or after `from` that carries an amount
\* (if (event.args?.amount)), 0 when there is none.
NextPayout(events, from) ==
    LET S == {j \in from .. Len(events) : events[j].present} IN
      IF S = {} THEN 0 ELSE CHOOSE j \in S : \A m \in S : j <= m

\* sendDues up to its first await: the fee is computed and
\* signer.sendTransaction is called.
DuesTransfer(amount) ==
    [to |-> DUES_RECIPIENT, value |-> calculateDuesAmount(amount)]

\* The loop over receipt.events from event `from` on: the next event with
\* an amount starts sendDues; without one claimRewards returns.
DuesLoop(e, r, from) ==
    LET j == NextPayout(r.events, from) IN
      IF j = 0
      THEN Returned(r, "none")
      ELSE [r EXCEPT !.pc = "dues_submit", !.k = j,
                     !.duesSent = Append(@, DuesTransfer(r.events[j]))]

\* The contract records a confirmed claim: the rounds are marked claimed.
ContractAfterClaim(epochs) ==
    [d \in DOMAIN ledger |->
        IF \E n \in 1 .. Len(epochs) : epochs[n] = d
        THEN [ledger[d] EXCEPT !.claimed = TRUE]
        ELSE ledger[d]]

\* tx.wait() of the claim resolves with the receipt.
ClaimWaitOk(e, receipt) ==
    /\ alive
    /\ lc[e].pc = "claim_wait"
    /\ ledger' = ContractAfterClaim(lc[e].claimableEpochs)
    /\ lc' = [lc EXCEPT ![e] =
                IF receipt.hasEvents
                THEN DuesLoop(e, [@ EXCEPT !.claim = "ok",
                                           !.events = receipt.events], 1)
                ELSE Returned([@ EXCEPT !.claim = "ok"], "none")]
    /\ UNCHANGED <<strategy, waitingTime, alive, probe>>

\* tx.wait() of the claim rejects.
ClaimWaitFail(e) ==
    /\ alive
    /\ lc[e].pc = "claim_wait"
    /\ ClaimCatch(e)
    /\ UNCHANGED <<strategy, waitingTime, ledger, probe>>

\* sendDues returns (at the end of its try or of its catch): the loop of
\* claimRewards goes on with the next event.
SendDuesReturn(e) ==
    lc' = [lc EXCEPT ![e] =
             DuesLoop(e, [@ EXCEPT !.duesSettled = @ + 1], @.k + 1)]

\* sendDues without its try/catch: the rejection reaches the catch block of
\* claimRewards.
SendDuesCatch_Rethrows(e) ==
    lc' = [lc EXCEPT ![e] = Returned(@, "none")]

\* The catch block of sendDues: logs, and sendDues returns.
SendDuesCatch(e) == SendDuesReturn(e)

\* signer.sendTransaction resolves: duesTx.wait() is awaited.
DuesSubmitOk(e) ==
    /\ alive
    /\ lc[e].pc = "dues_submit"
    /\ lc' = [lc EXCEPT ![e] = [@ EXCEPT !.pc = "dues_wait"]]
    /\ UNCHANGED <<strategy, waitingTime, alive, ledger, probe>>

\* signer.sendTransaction rejects: the catch block of sendDues logs.
DuesSubmitFail(e) ==
    /\ alive
    /\ lc[e].pc = "dues_submit"
    /\ SendDuesCatch(e)
    /\ UNCHANGED <<strategy, waitingTime, alive, ledger, probe>>

\* duesTx.wait() resolves.
DuesWaitOk(e) ==
    /\ alive
    /\ lc[e].pc = "dues_wait"
    /\ SendDuesReturn(e)
    /\ UNCHANGED <<strategy, waitingTime, alive, ledger, probe>>

\* duesTx.wait() rejects: the catch block of sendDues logs.
DuesWaitFail(e) ==
    /\ alive
    /\ lc[e].pc = "dues_wait"
    /\ SendDuesCatch(e)
    /\ UNCHANGED <<strategy, waitingTime, alive, ledger, probe>>

----------------------------------------------------------------------------
(* The lifecycle specification *)

NoProbe == [fn |-> "none"]

Init ==
    /\ strategy \in STRATEGIES
    /\ waitingTime = DEFAULT_WAITING_TIME_MS
    /\ alive = TRUE
    /\ lc = [e \in Rounds |-> Fresh]
    /\ ledger \in LedgersOver(LastEpoch, 1 .. FirstEpoch - 1, StakedEntries, MaxStaked)
    /\ probe = NoProbe

\* The steps of the lifecycle of round e after its signal: the disjuncts
\* of Next for round e, but for StartRound.
Progress(e) ==
    \/ SleepElapsed(e)
    \/ AmountsFail(e)
    \/ \E bull \in Pools, bear \in Pools : AmountsOk(e, bull, bear)
    \/ BetSubmitOk(e)
    \/ BetSubmitFail(e)
    \/ BetWaitOk(e)
    \/ BetWaitFail(e)
    \/ ScanRead(e)
    \/ ScanFail(e)
    \/ ClaimSubmitOk(e)
    \/ ClaimSubmitFail(e)
    \/ \E receipt \in Receipts : ClaimWaitOk(e, receipt)
    \/ ClaimWaitFail(e)
    \/ DuesSubmitOk(e)
    \/ DuesSubmitFail(e)
    \/ DuesWaitOk(e)
    \/ DuesWaitFail(e)

Next ==
    \/ \E e \in Rounds : StartRound(e)
    \/ \E e \in Rounds : SleepElapsed(e)
    \/ \E e \in Rounds : AmountsFail(e)
    \/ \E e \in Rounds, bull \in Pools, bear \in Pools : AmountsOk(e, bull, bear)
    \/ \E e \in Rounds : BetSubmitOk(e)
    \/ \E e \in Rounds : BetSubmitFail(e)
    \/ \E e \in Rounds : BetWaitOk(e)
    \/ \E e \in Rounds : BetWaitFail(e)
    \/ \E e \in Rounds : ScanRead(e)
    \/ \E e \in Rounds : ScanFail(e)
    \/ \E e \in Rounds : ClaimSubmitOk(e)
    \/ \E e \in Rounds : ClaimSubmitFail(e)
    \/ \E e \in Rounds, receipt \in Receipts : ClaimWaitOk(e, receipt)
    \/ \E e \in Rounds : ClaimWaitFail(e)
    \/ \E e \in Rounds : DuesSubmitOk(e)
    \/ \E e \in Rounds : DuesSubmitFail(e)
    \/ \E e \in Rounds : DuesWaitOk(e)
    \/ \E e \in Rounds : DuesWaitFail(e)

Spec == Init /\ [][Next]_vars

\* Every awaited call eventually resolves or rejects, and the event loop
\* runs every continuation that is ready.
FairSpec == Spec /\ \A e \in Rounds : WF_vars(Progress(e))

----------------------------------------------------------------------------
(* Runs in which the bet of every round fails: one lifecycle at a time,    *)
(* non-empty pools, a signer without stakes (so the scan finds nothing).   *)

\* Number of StartRound events of these runs.
NumFailingRounds == 50

StartRoundSerial(e) == StartRoundWhen(e, 1)

InitBetFailures ==
    /\ strategy \in STRATEGIES
    /\ waitingTime = DEFAULT_WAITING_TIME_MS
    /\ alive = TRUE
    /\ lc = [e \in FirstEpoch .. FirstEpoch + NumFailingRounds - 1 |-> Fresh]
    /\ ledger = [e \in 1 .. FirstEpoch + NumFailingRounds - 1 |-> BlankEntry]
    /\ probe = NoProbe

NextBetFailures ==
    \/ \E e \in DOMAIN lc : StartRoundSerial(e)
    \/ \E e \in DOMAIN lc : SleepElapsed(e)
    \/ \E e \in DOMAIN lc, bull \in Pools \ {0}, bear \in Pools \ {0} :
          AmountsOk(e, bull, bear)
    \/ \E e \in DOMAIN lc : BetSubmitOk(e)
    \/ \E e \in DOMAIN lc : BetSubmitFail(e)
    \/ \E e \in DOMAIN lc : BetWaitFail(e)
    \/ \E e \in DOMAIN lc : ScanRead(e)

SpecBetFailures == InitBetFailures /\ [][NextBetFailures]_vars

----------------------------------------------------------------------------
(* The strategy evaluation of placeBet on its own. *)

\* Largest pool total tried.
MaxPool == 12

InitStrategy ==
    /\ strategy \in STRATEGIES
    /\ waitingTime = DEFAULT_WAITING_TIME_MS
    /\ alive = TRUE
    /\ lc = [e \in {} |-> Fresh]
    /\ ledger = [e \in {} |-> BlankEntry]
    /\ probe \in [fn : {"placeBet"}, bullAmount : 0 .. MaxPool,
                   bearAmount : 0 .. MaxPool,
                   shouldBetBear : {"pending"}, betType : {"none"}]

\* placeBet up to the logging of the bet type.
EvaluateStrategy ==
    /\ probe.fn = "placeBet"
    /\ probe.shouldBetBear = "pending"
    /\ LET shouldBetBear ==
               ShouldBetBear(strategy, probe.bullAmount, probe.bearAmount) IN
         probe' = [probe EXCEPT
                     !.shouldBetBear = shouldBetBear,
                     !.betType = IF shouldBetBear = "throw" THEN "none"
                                 ELSE BetType(shouldBetBear)]
    /\ UNCHANGED <<strategy, waitingTime, alive, lc, ledger>>

SpecStrategy == InitStrategy /\ [][EvaluateStrategy]_vars

----------------------------------------------------------------------------
(* The two strategy evaluations side by side: Contrarian mode on a pool    *)
(* pair, Majority mode on the inverted pair and Majority mode on the pair  *)
(* itself.                                                                 *)

InitMirror ==
    /\ strategy = Against
    /\ waitingTime = DEFAULT_WAITING_TIME_MS
    /\ alive = TRUE
    /\ lc = [e \in {} |-> Fresh]
    /\ ledger = [e \in {} |-> BlankEntry]
    /\ probe \in [fn : {"mirror"}, a : 0 .. MaxPool, b : 0 .. MaxPool,
                   called : {FALSE},
                   againstBear : {"pending"}, againstSide : {"none"},
                   withBear : {"pending"}, withSide : {"none"},
                   withSameBear : {"pending"}, withSameSide : {"none"}]

\* placeBet up to the logging of the bet type, in Contrarian mode on
\* (bull = a, bear = b), in Majority mode on (bull = b, bear = a) and in
\* Majority mode on (bull = a, bear = b).
EvaluateBothModes ==
    /\ probe.fn = "mirror"
    /\ ~probe.called
    /\ LET againstBear == ShouldBetBear(Against, probe.a, probe.b)
           withBear == ShouldBetBear(With, probe.b, probe.a)
           withSameBear == ShouldBetBear(With, probe.a, probe.b)
       IN  probe' = [probe EXCEPT
                       !.called = TRUE,
                       !.againstBear = againstBear,
                       !.againstSide = IF againstBear = "throw" THEN "none"
                                       ELSE BetType(againstBear),
                       !.withBear = withBear,
                       !.withSide = IF withBear = "throw" THEN "none"
                                    ELSE BetType(withBear),
                       !.withSameBear = withSameBear,
                       !.withSameSide = IF withSameBear = "throw" THEN "none"
                                        ELSE BetType(withSameBear)]
    /\ UNCHANGED <<strategy, waitingTime, alive, lc, ledger>>

SpecMirror == InitMirror /\ [][EvaluateBothModes]_vars

----------------------------------------------------------------------------
(* calculateDuesAmount on its own, on two payouts at a time. *)

GweiSamples ==
    {0, 1, 49, 50, 499999999, 500000000, 500000001, 500000049, 500000050,
     1000000000}
WeiSamples == {0, 1, 49, 50, 999999999}
PayoutSamples ==
    {Undefined} \cup {BN(g, w) : g \in GweiSamples, w \in WeiSamples}

InitDues ==
    /\ strategy = Against
    /\ waitingTime = DEFAULT_WAITING_TIME_MS
    /\ alive = TRUE
    /\ lc = [e \in {} |-> Fresh]
    /\ ledger = [e \in {} |-> BlankEntry]
    /\ probe \in [fn : {"calculateDuesAmount"}, x : PayoutSamples,
                   y : PayoutSamples, called : {FALSE},
                   feeX : {Undefined}, feeY : {Undefined}]

ComputeDues ==
    /\ probe.fn = "calculateDuesAmount"
    /\ ~probe.called
    /\ probe' = [probe EXCEPT !.called = TRUE,
                              !.feeX = calculateDuesAmount(probe.x),
                              !.feeY = calculateDuesAmount(probe.y)]
    /\ UNCHANGED <<strategy, waitingTime, alive, lc, ledger>>

SpecDues == InitDues /\ [][ComputeDues]_vars

----------------------------------------------------------------------------
(* The claim scan of one round over every kind of ledger entry: a single   *)
(* lifecycle whose bet is confirmed.                                       *)

\* Largest number of rounds of the scanned ledger that are not blank.
MaxScanStaked == 2

InitScan ==
    /\ strategy = Against
    /\ waitingTime = DEFAULT_WAITING_TIME_MS
    /\ alive = TRUE
    /\ \E epoch \in {FirstEpoch, FirstEpoch + 1} :
         /\ lc = [e \in {epoch} |-> Fresh]
         /\ ledger \in LedgersOver(epoch, 1 .. epoch - 1,
                                    LedgerEntries \ {BlankEntry}, MaxScanStaked)
    /\ probe = NoProbe

NextScan ==
    \/ \E e \in DOMAIN lc : StartRound(e)
    \/ \E e \in DOMAIN lc : SleepElapsed(e)
    \/ \E e \in DOMAIN lc : AmountsOk(e, 10, 10)
    \/ \E e \in DOMAIN lc : BetSubmitOk(e)
    \/ \E e \in DOMAIN lc : BetWaitOk(e)
    \/ \E e \in DOMAIN lc : ScanRead(e)

SpecScan == InitScan /\ [][NextScan]_vars

----------------------------------------------------------------------------
(* Properties *)

\* C1: in every reachable state, after any number of bet failures, the
\* shared waitingTime is never below the floor of 6000 ms.
C1_WaitingTimeNeverBelowFloor == waitingTime >= MIN_WAITING_TIME_MS

BetFailed == {e \in DOMAIN lc : lc[e].bet = "failed"}

\* C2: a lifecycle whose bet failed (at submission or at confirmation) has
\* applied the waiting-time reduction exactly once and has gone on to the
\* claim scan of its round; waitingTime has been reduced once per failed bet.
C2_BetFailureReducesOnceThenScans ==
    /\ \A e \in DOMAIN lc :
          /\ lc[e].bet = "failed" => lc[e].reductions = 1 /\ lc[e].scanned
          /\ lc[e].bet # "failed" => lc[e].reductions = 0
    /\ waitingTime = DEFAULT_WAITING_TIME_MS - TWO_BLOCKS_MS * Cardinality(BetFailed)

\* A lifecycle whose bet failed is running its claim scan while another one,
\* whose bet failed too, has finished its scan and returned.
C2_Witness ==
    \E e, d \in DOMAIN lc :
        /\ lc[e].bet = "failed" /\ lc[e].pc = "scan"
        /\ lc[d].bet = "failed" /\ lc[d].pc = "done" /\ lc[d].error = "none"

\* C3 as stated: a lifecycle whose amount read failed still runs the claim
\* scan of its round.
C3_AmountReadFailureStillScans ==
    \A e \in DOMAIN lc :
        lc[e].error = "amounts" /\ lc[e].pc = "done" => lc[e].scanned

\* C3 amended: a lifecycle whose amount read failed has ended without a bet
\* and without the claim scan of its round.
C3_AmountReadFailureEndsLifecycle ==
    \A e \in DOMAIN lc :
        lc[e].error = "amounts" =>
            lc[e].pc = "done" /\ lc[e].bet = "none" /\ ~lc[e].scanned

C3_Witness == \E e \in DOMAIN lc : lc[e].error = "amounts"

\* C4: for every pool pair with a zero total the strategy evaluation, in
\* either mode, raises no division fault and yields a definite side.
C4_ZeroPoolYieldsSide ==
    (probe.shouldBetBear # "pending"
        /\ (probe.bullAmount = 0 \/ probe.bearAmount = 0))
    => probe.shouldBetBear # "throw" /\ probe.betType \in {"Bull", "Bear"}

\* C5: in Contrarian mode, on non-zero pools, the side is Bear exactly when
\* (bull > bear and bull div bear < 5) or (bull < bear and bear div bull > 5)
\* and Bull otherwise.
C5_ContrarianDecision ==
    LET bull == probe.bullAmount
        bear == probe.bearAmount
    IN  (strategy = Against /\ probe.shouldBetBear # "pending"
            /\ bull > 0 /\ bear > 0)
        => /\ probe.betType =
                IF \/ bull > bear /\ bull \div bear < 5
                   \/ bull < bear /\ bear \div bull > 5
                THEN "Bear" ELSE "Bull"
           /\ (bull > bear /\ bull \div bear < 5 => probe.betType = "Bear")
           /\ (bear > bull /\ bear \div bull < 5 => probe.betType = "Bull")

\* Contrarian mode has decided Bear on bull = 9, bear = 2 (9 div 2 = 4).
C5_Witness ==
    /\ strategy = Against
    /\ probe.betType = "Bear"
    /\ probe.bullAmount = 9 /\ probe.bearAmount = 2

SeqToSet(q) == {q[n] : n \in 1 .. Len(q)}

\* The rounds current-1 .. current-5 whose entry has amount > 0, is
\* claimable or refundable, and is not claimed.
EligibleRounds(current) ==
    {d \in current - 5 .. current - 1 :
        /\ ledger[d].amount > 0
        /\ ledger[d].claimable \/ ledger[d].refundable
        /\ ~ledger[d].claimed}

\* C6: the claim scan of round `current` returns exactly the rounds
\* current-1 .. current-5 with amount > 0, claimable or refundable, and not
\* claimed: each once, and no round that is claimed, unstaked or outside the
\* window.
C6_ScanReturnsEligibleRounds ==
    \A e \in DOMAIN lc :
        LET found == lc[e].claimableEpochs IN
        /\ Cardinality(SeqToSet(found)) = Len(found)
        /\ lc[e].pc = "scan" =>
              SeqToSet(found) = {d \in EligibleRounds(e) : d > e - lc[e].i}
        /\ lc[e].pc = "claim_submit" => SeqToSet(found) = EligibleRounds(e)
        /\ lc[e].pc = "done" /\ lc[e].scanned => EligibleRounds(e) = {}

\* The scan has returned exactly {current-3} although current-1 is staked
\* and claimable, but claimed already.
C6_Witness ==
    \E e \in DOMAIN lc :
        /\ lc[e].pc = "claim_submit"
        /\ lc[e].claimableEpochs = <<e - 3>>
        /\ ledger[e - 1].amount > 0 /\ ledger[e - 1].claimable
        /\ ledger[e - 1].claimed

\* 50 * q, for q below 2^31 / 50 gwei
BNTimes50(q) ==
    BN(50 * q.gwei + (q.wei \div 20000000), 50 * (q.wei % 20000000))

\* a + n for a small n
BNPlus(a, n) ==
    IF a.wei + n < GWEI THEN BN(a.gwei, a.wei + n)
    ELSE BN(a.gwei + 1, a.wei + n - GWEI)

BNLe(a, b) == ~BNLt(b, a)

MinimumFee == BN(10000000, 0)

\* fee = max(MinimumFee, x div 50), x div 50 being the q with
\* 50 q <= x < 50 q + 50; the minimum fee when x is absent.
IsDuesOf(fee, x) ==
    \/ /\ fee = MinimumFee
       /\ ~x.present \/ BNLt(x, BNTimes50(BNPlus(MinimumFee, 1)))
    \/ /\ BNLt(MinimumFee, fee)
       /\ x.present
       /\ BNLe(BNTimes50(fee), x) /\ BNLt(x, BNPlus(BNTimes50(fee), 50))

\* C7: the dues fee of a payout x is x div 50 when that is at least the
\* minimum fee and the minimum fee otherwise (also when x is absent); it is
\* never below the minimum fee, it is the minimum fee for every payout
\* below 50 times the minimum fee, and it does not decrease when the payout
\* grows.
C7_DuesFee ==
    probe.called =>
        /\ IsDuesOf(probe.feeX, probe.x)
        /\ BNLe(MinimumFee, probe.feeX)
        /\ (probe.x.present /\ BNLt(probe.x, BNTimes50(MinimumFee)))
              => probe.feeX = MinimumFee
        /\ (probe.x.present /\ probe.y.present /\ BNLe(probe.x, probe.y))
              => BNLe(probe.feeX, probe.feeY)

\* The fee of 0.5 BNB + 50 wei is 0.01 BNB + 1 wei, that of an absent
\* payout is the minimum fee.
C7_Witness ==
    /\ probe.called
    /\ probe.x = BN(500000000, 50) /\ probe.feeX = BN(10000000, 1)
    /\ ~probe.y.present /\ probe.feeY = MinimumFee

\* The next StartRound event is for round e and may be delivered.
SignalDue(e) ==
    /\ lc[e].pc = "idle"
    /\ \A d \in DOMAIN lc : d < e => lc[d].pc # "idle"
    /\ Cardinality(InFlight) < MaxInFlight

\* C8: a failure raised inside a lifecycle is caught within it: the process
\* keeps running, the step that ends the failing lifecycle changes no other
\* lifecycle, and the next round signal still starts a new lifecycle.
C8_FailuresAreContained ==
    /\ [](alive /\ \A e \in DOMAIN lc : SignalDue(e) => ENABLED StartRound(e))
    /\ [][\A e \in DOMAIN lc :
            (lc[e].error = "none" /\ lc'[e].error # "none")
            => /\ lc'[e].pc = "done"
               /\ \A d \in DOMAIN lc \ {e} : lc'[d] = lc[d]]_vars

\* One lifecycle has ended on a division fault and another on a failed
\* scan read, and the process is still running.
C8_Witness ==
    \E e, d \in DOMAIN lc :
        /\ lc[e].error = "division-by-zero"
        /\ lc[d].error = "scan"
        /\ alive

\* C9: when rounds N and N+1 are both signalled before N's wait elapses and
\* every awaited call eventually returns or fails, both lifecycles reach
\* their end; and a lifecycle in flight can always take its next step,
\* whatever the state of the others.
C9_ConcurrentRoundsBothFinish ==
    /\ \A e \in Rounds \ {LastEpoch} :
          (lc[e].pc = "sleeping" /\ lc[e + 1].pc = "sleeping")
             ~> (lc[e].pc = "done" /\ lc[e + 1].pc = "done")
    /\ [](\A e \in Rounds :
             lc[e].pc \notin {"idle", "done"} => ENABLED Progress(e))

\* Rounds N and N+1 are both waiting.
C9_Witness ==
    /\ lc[FirstEpoch].pc = "sleeping"
    /\ lc[FirstEpoch + 1].pc = "sleeping"

RECURSIVE ExpectedDues(_, _)
\* The transfers due for the first k events of a receipt, in receipt order:
\* one per event that carries an amount, of computeFee(amount), to the
\* fixed recipient.
ExpectedDues(events, k) ==
    IF k = 0 THEN <<>>
    ELSE IF events[k].present
    THEN Append(ExpectedDues(events, k - 1),
                [to |-> DUES_RECIPIENT, value |-> calculateDuesAmount(events[k])])
    ELSE ExpectedDues(events, k - 1)

\* C10: after a confirmed claim the lifecycle submits, in receipt order, one
\* dues transfer of computeFee(amount) to the fixed recipient per event that
\* carries an amount; a transfer is submitted only when every earlier one
\* has been confirmed or has failed; and the lifecycle ends only when the
\* transfers of all events have been submitted, whether or not they failed.
C10_DuesSentInOrderOneAtATime ==
    /\ [](\A e \in DOMAIN lc :
            lc[e].pc \in {"dues_submit", "dues_wait"} =>
                /\ lc[e].k \in 1 .. Len(lc[e].events)
                /\ lc[e].events[lc[e].k].present
                /\ lc[e].duesSent = ExpectedDues(lc[e].events, lc[e].k)
                /\ lc[e].duesSettled = Len(lc[e].duesSent) - 1)
    /\ [][\A e \in DOMAIN lc :
            (lc[e].pc \in {"dues_submit", "dues_wait"} /\ lc'[e].pc = "done")
            => lc[e].duesSent = ExpectedDues(lc[e].events, Len(lc[e].events))]_vars

\* The second of two transfers is awaiting confirmation: the minimum fee for
\* the payout of 1000 wei, then 0.02 BNB for the payout of 1 BNB.
C10_Witness ==
    \E e \in DOMAIN lc :
        /\ lc[e].pc = "dues_wait"
        /\ lc[e].events = <<BN(0, 1000), BN(GWEI, 0)>>
        /\ lc[e].duesSettled = 1
        /\ lc[e].duesSent =
              <<[to |-> DUES_RECIPIENT, value |-> BN(10000000, 0)],
                [to |-> DUES_RECIPIENT, value |-> BN(20000000, 0)]>>

\* C11: a lifecycle whose claim transaction failed, at submission or at
\* confirmation, ends at that step: it has submitted no dues transfer, it
\* does not call executeClaim again and it takes no further step; a dues
\* transfer is submitted only by a lifecycle whose claim was confirmed.
C11_FailedClaimEndsWithoutDues ==
    /\ [](\A e \in DOMAIN lc :
            /\ lc[e].claim = "failed" =>
                  lc[e].pc = "done" /\ lc[e].claimTxs = 1
            /\ (lc[e].pc \in {"dues_submit", "dues_wait"}
                    \/ lc[e].duesSent # <<>>) => lc[e].claim = "ok")
    /\ [][\A e \in DOMAIN lc :
            /\ (lc[e].claim # "failed" /\ lc'[e].claim = "failed") =>
                  /\ lc[e].pc \in {"claim_submit", "claim_wait"}
                  /\ lc[e].duesSent = <<>> /\ lc'[e].duesSent = <<>>
                  /\ lc'[e].claimTxs = lc[e].claimTxs
            /\ lc[e].claim = "failed" => lc'[e] = lc[e]
            /\ Len(lc'[e].duesSent) > Len(lc[e].duesSent) =>
                  lc'[e].claim = "ok"]_vars

\* The claim of one lifecycle has failed and the lifecycle has returned,
\* while another lifecycle, whose claim was confirmed, has submitted a
\* dues transfer.
C11_Witness ==
    \E e, d \in DOMAIN lc :
        /\ lc[e].claim = "failed" /\ lc[e].pc = "done"
        /\ lc[d].claim = "ok" /\ lc[d].pc = "dues_submit"
        /\ Len(lc[d].duesSent) = 1

Max(a, b) == IF a >= b THEN a ELSE b

\* The step of the scenario: executeBet rejects in the lifecycle of round e,
\* which runs in Contrarian mode and has read bullTotal = 100, bearTotal = 10.
ScenarioBetSubmissionThrows(e) ==
    /\ strategy = Against
    /\ lc[e].pc = "bet_submit"
    /\ lc[e].bullAmount = 100 /\ lc[e].bearAmount = 10
    /\ lc'[e].bet = "failed"

\* What the scenario says of that step, for the decided side: the bet is on
\* `side`, waitingTime goes down by 6000 ms and stays at or above the floor,
\* and the lifecycle has entered the claim scan of its round.
ScenarioOutcome(e, side) ==
    /\ lc[e].betType = side
    /\ waitingTime' = Max(waitingTime - TWO_BLOCKS_MS, MIN_WAITING_TIME_MS)
    /\ waitingTime' = waitingTime - TWO_BLOCKS_MS
    /\ lc'[e].pc = "scan" /\ lc'[e].scanned /\ lc'[e].i = 1
    /\ lc'[e].reductions = lc[e].reductions + 1

Min(a, b) == IF a <= b THEN a ELSE b

\* C13: for every pair of non-zero pools (a, b) whose larger total is at
\* least 5 times the smaller (integer ratio), Contrarian mode on
\* (bull = a, bear = b) and Majority mode on (bull = b, bear = a) choose
\* the same side.
C13_ContrarianMirrorsMajorityInverted ==
    (/\ probe.called
     /\ probe.a > 0 /\ probe.b > 0
     /\ Max(probe.a, probe.b) \div Min(probe.a, probe.b) >= 5)
    => /\ probe.againstSide \in {"Bull", "Bear"}
       /\ probe.againstSide = probe.withSide

\* On a = 1, b = 12 both evaluations choose Bear.
C13_Witness ==
    /\ probe.called
    /\ probe.a = 1 /\ probe.b = 12
    /\ probe.againstSide = "Bear" /\ probe.withSide = "Bear"

\* Number of reductions by 6000 ms that take the initial waitingTime to the
\* floor or below it.
FailuresToFloor ==
    (DEFAULT_WAITING_TIME_MS - MIN_WAITING_TIME_MS + TWO_BLOCKS_MS - 1)
        \div TWO_BLOCKS_MS

\* C14: every bet failure sets waitingTime to max(waitingTime - 6000, 6000);
\* from the initial value, once enough bets in a row have failed waitingTime
\* is exactly 6000, and further failures leave it there.
C14_ReductionClampsAtFloor ==
    [][\A e \in DOMAIN lc :
         (lc[e].bet # "failed" /\ lc'[e].bet = "failed") =>
            /\ waitingTime' =
                  Max(waitingTime - TWO_BLOCKS_MS, MIN_WAITING_TIME_MS)
            /\ Cardinality(BetFailed) + 1 >= FailuresToFloor
                  => waitingTime' = MIN_WAITING_TIME_MS]_vars

RECURSIVE ReducedTimes(_, _)
\* w after n reductions applied one after the other.
ReducedTimes(w, n) ==
    IF n = 0 THEN w
    ELSE reduceWaitingTimeByTwoBlocks(ReducedTimes(w, n - 1))

\* The bet of lifecycle e fails in this step while lifecycle d, whose bet
\* has failed too, is still in flight.
ConcurrentBetFailure(e, d) ==
    /\ e # d
    /\ lc[e].bet # "failed" /\ lc'[e].bet = "failed"
    /\ lc[d].bet = "failed" /\ lc[d].pc # "done"

\* C15 as stated: when two lifecycles in flight together both fail their
\* bet, the second reduction starts from a stale value and waitingTime ends
\* at a value other than that of the reductions applied one after the other.
C15_ConcurrentFailuresLoseAnUpdate ==
    [][\A e, d \in DOMAIN lc :
         ConcurrentBetFailure(e, d) =>
            waitingTime' # ReducedTimes(DEFAULT_WAITING_TIME_MS,
                                        Cardinality(BetFailed) + 1)]_vars

\* C15 amended: the reduction reads and writes waitingTime in one step, so
\* when two lifecycles in flight together both fail their bet, each
\* reduction starts from the value the other left and waitingTime ends at
\* the value of the reductions applied one after the other.
C15_ConcurrentFailuresReduceInTurn ==
    [][\A e, d \in DOMAIN lc :
         ConcurrentBetFailure(e, d) =>
            /\ waitingTime' = reduceWaitingTimeByTwoBlocks(waitingTime)
            /\ waitingTime' = ReducedTimes(DEFAULT_WAITING_TIME_MS,
                                           Cardinality(BetFailed) + 1)]_vars

\* Two lifecycles whose bets were pending together have both failed their
\* bet and are both still in flight; waitingTime has gone down twice.
C15_Witness ==
    \E e, d \in DOMAIN lc :
        /\ e # d
        /\ lc[e].bet = "failed" /\ lc[e].pc = "scan"
        /\ lc[d].bet = "failed" /\ lc[d].pc = "scan"
        /\ waitingTime = DEFAULT_WAITING_TIME_MS - 2 * TWO_BLOCKS_MS

\* C16: a lifecycle waits for the value waitingTime has when its round
\* signal is handled; the wait of a waiting lifecycle never changes, and a
\* reduction happens in a lifecycle that has finished its wait, changes no
\* wait in progress, and is seen only by the signals handled after it.
C16_WaitFixedAtSignal ==
    /\ [][\A e \in DOMAIN lc :
            /\ (lc[e].pc = "idle" /\ lc'[e].pc # "idle") =>
                  /\ lc'[e].pc = "sleeping"
                  /\ lc'[e].sleepMs = waitingTime
            /\ lc[e].pc = "sleeping" =>
                  \/ lc'[e].pc = "sleeping" /\ lc'[e].sleepMs = lc[e].sleepMs
                  \/ lc'[e].pc = "amounts" /\ waitingTime' = waitingTime
            /\ (lc[e].bet # "failed" /\ lc'[e].bet = "failed") =>
                  /\ lc[e].pc \in {"bet_submit", "bet_wait"}
                  /\ \A d \in DOMAIN lc \ {e} : lc'[d] = lc[d]]_vars
    /\ [](\A e \in DOMAIN lc :
            lc[e].pc = "sleeping" => lc[e].sleepMs >= waitingTime)

\* A lifecycle is still waiting for the 281500 ms it read at its signal
\* after the bet failure of another lifecycle has reduced waitingTime.
C16_Witness ==
    \E e, d \in DOMAIN lc :
        /\ lc[e].pc = "sleeping" /\ lc[e].sleepMs = DEFAULT_WAITING_TIME_MS
        /\ lc[d].bet = "failed"
        /\ waitingTime = DEFAULT_WAITING_TIME_MS - TWO_BLOCKS_MS

\* C17: the step in which the amount read of a lifecycle fails ends that
\* lifecycle: it has called executeBet for no bet, waitingTime is left as it
\* was, and the lifecycle takes no further step (it does not read again).
C17_AmountReadFailureTerminates ==
    /\ [][\A e \in DOMAIN lc :
            /\ (lc[e].error # "amounts" /\ lc'[e].error = "amounts") =>
                  /\ lc[e].pc = "amounts" /\ lc'[e].pc = "done"
                  /\ lc'[e].betTxs = 0 /\ lc'[e].bet = "none"
                  /\ waitingTime' = waitingTime
            /\ lc[e].error = "amounts" => lc'[e] = lc[e]]_vars
    /\ [](\A e \in DOMAIN lc :
            lc[e].error = "amounts" =>
                lc[e].pc = "done" /\ lc[e].betTxs = 0 /\ lc[e].reductions = 0)

\* The amount read of a lifecycle has failed after the failed bet of a
\* lifecycle before it: it has ended without a bet, and waitingTime is
\* where the failed bet left it.
C17_Witness ==
    \E e, d \in DOMAIN lc :
        /\ d < e
        /\ lc[d].bet = "failed"
        /\ lc[e].error = "amounts" /\ lc[e].pc = "done" /\ lc[e].betTxs = 0
        /\ waitingTime = DEFAULT_WAITING_TIME_MS - TWO_BLOCKS_MS

\* The last pass of the scan of lifecycle e is due and no round of its
\* window is eligible: the scan is about to return an empty batch.
ScanEndsEmpty(e) ==
    /\ lc[e].pc = "scan"
    /\ lc[e].i = CLAIMABLE_EPOCHS_CHECK_COUNT
    /\ lc[e].claimableEpochs = <<>>
    /\ ~IsClaimableEntry(ledger[e - CLAIMABLE_EPOCHS_CHECK_COUNT])

\* C18: when the claim scan of a lifecycle returns an empty batch the
\* lifecycle ends at that step, having called executeClaim for no claim and
\* sent no dues transfer, and it takes no further step; a lifecycle that
\* made no claim has no dues transfer.
C18_EmptyScanEndsLifecycle ==
    /\ [][\A e \in DOMAIN lc :
            /\ (ScanEndsEmpty(e) /\ lc'[e] # lc[e] /\ lc'[e].error = "none") =>
                  /\ lc'[e].pc = "done"
                  /\ lc'[e].claimTxs = 0 /\ lc'[e].claim = "none"
                  /\ lc'[e].duesSent = <<>>
                  /\ ledger' = ledger
            /\ (lc[e].pc = "done" /\ lc[e].claimTxs = 0) => lc'[e] = lc[e]]_vars
    /\ [](\A e \in DOMAIN lc :
            lc[e].claimTxs = 0 =>
                /\ lc[e].pc \notin {"claim_submit", "claim_wait",
                                    "dues_submit", "dues_wait"}
                /\ lc[e].duesSent = <<>> /\ lc[e].claim = "none")

\* A lifecycle has ended on an empty batch, without a claim, although the
\* signer has a stake in a round of its window (one that is not eligible).
C18_Witness ==
    \E e \in DOMAIN lc :
        /\ lc[e].pc = "done" /\ lc[e].scanned /\ lc[e].error = "none"
        /\ lc[e].claimTxs = 0 /\ lc[e].claim = "none"
        /\ \E d \in e - CLAIMABLE_EPOCHS_CHECK_COUNT .. e - 1 :
              ledger[d].amount > 0 /\ ~IsClaimableEntry(ledger[d])

\* C19: waitingTime changes only in a step in which the bet of a lifecycle
\* fails; the steps of a confirmed bet, of a failed amount read, of a failed
\* scan read, of a failed claim and of a dues transfer that is confirmed or
\* fails leave it unchanged; and no step increases it.
C19_OnlyBetFailureChangesWaitingTime ==
    [][/\ waitingTime' # waitingTime =>
             \E e \in DOMAIN lc :
                 /\ lc[e].pc \in {"bet_submit", "bet_wait"}
                 /\ lc[e].bet = "none" /\ lc'[e].bet = "failed"
       /\ waitingTime' <= waitingTime
       /\ \A e \in DOMAIN lc :
             (\/ lc[e].bet = "none" /\ lc'[e].bet = "ok"
              \/ lc[e].error = "none" /\ lc'[e].error \in {"amounts", "scan"}
              \/ lc[e].claim # "failed" /\ lc'[e].claim = "failed"
              \/ lc[e].pc \in {"dues_submit", "dues_wait"} /\ lc'[e] # lc[e])
             => waitingTime' = waitingTime]_vars

\* After a failed bet of one lifecycle (one reduction), another lifecycle
\* has had its bet and its claim confirmed and its first dues transfer
\* settled: waitingTime is one reduction below the configured value.
C19_Witness ==
    \E e, d \in DOMAIN lc :
        /\ lc[e].bet = "failed"
        /\ lc[d].bet = "ok" /\ lc[d].claim = "ok"
        /\ lc[d].pc = "dues_wait" /\ lc[d].duesSettled = 1
        /\ waitingTime = DEFAULT_WAITING_TIME_MS - TWO_BLOCKS_MS

\* C20: a lifecycle calls executeBet at most once and executeClaim at most
\* once, whatever the outcome of its steps; the bet transaction is betBull
\* or betBear on the round of the lifecycle's signal, with the configured
\* stake; a lifecycle whose bet or claim has failed has made one call of it.
C20_AtMostOneBetAndOneClaim ==
    \A e \in DOMAIN lc :
        /\ lc[e].betTxs <= 1 /\ lc[e].claimTxs <= 1
        /\ lc[e].pc \in {"bet_submit", "bet_wait"} =>
              /\ lc[e].betTxs = 1
              /\ lc[e].betTx.method =
                    (IF lc[e].betType = "Bear" THEN "betBear" ELSE "betBull")
              /\ lc[e].betTx.epoch = e
              /\ lc[e].betTx.value = BN(100000000, 0)
        /\ lc[e].pc \notin {"bet_submit", "bet_wait"} => lc[e].betTx = NoTx
        /\ lc[e].bet # "none" => lc[e].betTxs = 1
        /\ lc[e].claim # "none" => lc[e].claimTxs = 1

\* A lifecycle has returned after both its bet and its claim failed: it has
\* made one call of executeBet and one of executeClaim.
C20_Witness ==
    \E e \in DOMAIN lc :
        /\ lc[e].pc = "done"
        /\ lc[e].bet = "failed" /\ lc[e].claim = "failed"
        /\ lc[e].betTxs = 1 /\ lc[e].claimTxs = 1

\* C21: no round is among the rounds passed to executeClaim by two
\* different lifecycles.
C21_NoRoundClaimedByTwoLifecycles ==
    \A e, d \in DOMAIN lc :
        e # d => SeqToSet(lc[e].claimTx) \cap SeqToSet(lc[d].claimTx) = {}

\* C22: for every pair of non-zero pools with bull # bear, Majority mode
\* and Contrarian mode choose opposite sides on that pair.
C22_MajorityOppositeOfContrarian ==
    (/\ probe.called
     /\ probe.a > 0 /\ probe.b > 0
     /\ probe.a # probe.b)
    => /\ probe.againstSide \in {"Bull", "Bear"}
       /\ probe.withSameSide \in {"Bull", "Bear"}
       /\ probe.againstSide # probe.withSameSide

====
